---- MODULE Spec2Model ----
(***************************************************************************)
(* clawg-ui: the AG-UI request handler (src/src/http-handler.ts), the      *)
(* per-session tool store (src/src/tool-store.ts), the tool lifecycle      *)
(* hooks (src/index.ts) and the client tool factory                        *)
(* (src/src/client-tools.ts) as one state machine.                         *)
(*                                                                         *)
(* A run is one invocation of handleAguiRequest that passed validation.    *)
(* The host pipeline is the environment: while a run awaits                *)
(* dispatchReplyFromConfig it calls the run's dispatcher and fires the     *)
(* two hooks in any order, and it may keep doing so after the handler      *)
(* returned.  Node runs every handler segment between two awaits, every    *)
(* dispatcher method and every hook to completion, so each is one action.  *)
(***************************************************************************)
EXTENDS Integers, Sequences, FiniteSets, TLC

VARIABLES
    runs,     \* run -> the locals of one handleAguiRequest invocation
    store,    \* the module-level Maps of tool-store.ts
    nextId,   \* number of tool-call ids drawn from randomUUID so far
    last,     \* history: the last call that emitted an event or changed the state
    calls,    \* history: the tool calls that drew an id, in order
    env       \* the environment of this behaviour, fixed by the initial state

vars == <<runs, store, nextId, last, calls, env>>

(***************************************************************************)
(* Bounds and input sets                                                   *)
(***************************************************************************)
MaxToolCalls == 1       \* before_tool_call invocations that draw an id
MaxNestedToolCalls == 2 \* the same, where tool calls nest
MaxPairToolCalls == 1   \* the same, two requests
MaxApartToolCalls == 1  \* the same, two requests on two sessions
MaxQuietToolCalls == 1  \* the same, with every call in the history
MaxStackToolCalls == 2  \* the same, where the pending stack is followed
MaxSeqToolCalls == 1    \* the same, two requests one after the other
MaxBlockReplies == 1   \* sendBlockReply calls that stream text, per run

Runs == {"A", "B"}
\* where the handler of a request can be once the request came in, and once
\* it is over
Started == {"recording", "dispatch", "done", "crashed"}
Over == {"done", "crashed"}
Threads == {"t1", "t2"}
Sessions == {"s1", "s2"}
NoSession == ""                       \* ctx.sessionKey undefined: falsy
SessionInputs == Sessions \cup {NoSession}
ClientToolName == "get_weather"
ServerToolName == "search_db"
ToolNames == {ClientToolName, ServerToolName}
ToolLists == {<<>>, <<[name |-> ClientToolName]>>}
\* the same, and a list of two tools
OrderedToolLists ==
    ToolLists \cup {<<[name |-> ClientToolName], [name |-> "get_time"]>>}
\* params: an object as its key/value pairs in insertion order
ParamInputs == {[present |-> FALSE, obj |-> <<>>],
                [present |-> TRUE, obj |-> <<>>],
                [present |-> TRUE, obj |-> << <<"city", "Tokyo">> >>]}
\* payload.text: a string as its characters
TextInputs == {[present |-> FALSE, text |-> <<>>],
               [present |-> TRUE, text |-> <<>>],
               [present |-> TRUE, text |-> <<" ">>],
               [present |-> TRUE, text |-> <<"h", "i">>],
               [present |-> TRUE, text |-> <<" ", "h", "i", " ">>]}

\* the inputs two requests are enough to tell apart
PairParamInputs == {[present |-> FALSE, obj |-> <<>>],
                    [present |-> TRUE, obj |-> << <<"city", "Tokyo">> >>]}
PairTextInputs == {[present |-> TRUE, text |-> <<>>],
                   [present |-> TRUE, text |-> <<" ", "h", "i", " ">>]}
ApartParamInputs == {[present |-> TRUE, obj |-> << <<"city", "Tokyo">> >>]}
ApartTextInputs == {[present |-> TRUE, text |-> <<"h", "i">>]}

\* resolveAgentRoute: the session key is derived from the thread's peer id
Route(threadId) == IF threadId = "t1" THEN "s1" ELSE "s2"
RunIdOf(r) == IF r = "A" THEN "r1" ELSE "r2"
\* `msg-${randomUUID()}`: one fresh id per handler invocation
MessageIdOf(r) == <<"msg", r>>
\* the message id the handler hands to setWriter along with writeEvent
BoundMessageId(r) == MessageIdOf(r)
\* variant: every call draws the same id
ToolCallIdOf_Fixed(n) == <<"tool", 0>>

\* `tool-${randomUUID()}`: the n-th draw, no two draws alike
ToolCallIdOf(n) == <<"tool", n>>

(***************************************************************************)
(* JavaScript Map                                                          *)
(***************************************************************************)
MapHas(m, k) == k \in DOMAIN m
MapSet(m, k, v) == [x \in DOMAIN m \cup {k} |-> IF x = k THEN v ELSE m[x]]
MapDelete(m, k) == [x \in DOMAIN m \ {k} |-> m[x]]
EmptyMap == [x \in {} |-> 0]

(***************************************************************************)
(* String.prototype.trim and JSON.stringify                                *)
(***************************************************************************)
RECURSIVE TrimStart(_)
TrimStart(s) == IF s # <<>> /\ Head(s) = " " THEN TrimStart(Tail(s)) ELSE s

RECURSIVE TrimEnd(_)
TrimEnd(s) ==
    IF s # <<>> /\ s[Len(s)] = " " THEN TrimEnd(SubSeq(s, 1, Len(s) - 1)) ELSE s

Trim(s) == TrimEnd(TrimStart(s))

RECURSIVE StringifyPairs(_)
StringifyPairs(obj) ==
    IF obj = <<>> THEN <<>>
    ELSE <<"\"", obj[1][1], "\"", ":", "\"", obj[1][2], "\"">>
         \o (IF Len(obj) > 1 THEN <<",">> ELSE <<>>)
         \o StringifyPairs(Tail(obj))

JsonStringify(obj) == <<"{">> \o StringifyPairs(obj) \o <<"}">>

(***************************************************************************)
(* AG-UI events                                                            *)
(***************************************************************************)
\* variant: RUN_STARTED with its two ids exchanged
RunStarted_Swapped(t, r) == [type |-> "RUN_STARTED", threadId |-> r, runId |-> t]

RunStarted(t, r) == [type |-> "RUN_STARTED", threadId |-> t, runId |-> r]
RunFinished(t, r) == [type |-> "RUN_FINISHED", threadId |-> t, runId |-> r]
RunError(msg) == [type |-> "RUN_ERROR", message |-> msg]
TextMessageStart(m) ==
    [type |-> "TEXT_MESSAGE_START", messageId |-> m, role |-> "assistant"]
TextMessageContent(m, d) ==
    [type |-> "TEXT_MESSAGE_CONTENT", messageId |-> m, delta |-> d]
TextMessageEnd(m) == [type |-> "TEXT_MESSAGE_END", messageId |-> m]
ToolCallStart(id, name) ==
    [type |-> "TOOL_CALL_START", toolCallId |-> id, toolCallName |-> name]
ToolCallArgs(id, d) == [type |-> "TOOL_CALL_ARGS", toolCallId |-> id, delta |-> d]
ToolCallResult(id, m) ==
    [type |-> "TOOL_CALL_RESULT", toolCallId |-> id, messageId |-> m, content |-> <<>>]
ToolCallEnd(id) == [type |-> "TOOL_CALL_END", toolCallId |-> id]

(***************************************************************************)
(* tool-store.ts                                                           *)
(***************************************************************************)
\* variant: the tools are added to those already stashed
stashTools_Appends(st, sessionKey, tools) ==
    [st EXCEPT !.toolStore =
        MapSet(@, sessionKey, (IF MapHas(@, sessionKey) THEN @[sessionKey] ELSE <<>>)
                              \o tools)]

stashTools(st, sessionKey, tools) ==
    [st EXCEPT !.toolStore = MapSet(@, sessionKey, tools)]

popToolsResult(st, sessionKey) ==
    IF MapHas(st.toolStore, sessionKey) THEN st.toolStore[sessionKey] ELSE <<>>

\* variant: the stash is read and kept
popTools_Keeps(st, sessionKey) == st

popTools(st, sessionKey) ==
    [st EXCEPT !.toolStore = MapDelete(@, sessionKey)]

\* variant: a writer already bound for the session is kept
setWriter_KeepsFirst(st, sessionKey, writer, messageId) ==
    IF MapHas(st.writerStore, sessionKey) THEN st
    ELSE [st EXCEPT !.writerStore = MapSet(@, sessionKey, writer),
                    !.messageIdStore = MapSet(@, sessionKey, messageId)]

setWriter(st, sessionKey, writer, messageId) ==
    [st EXCEPT !.writerStore = MapSet(@, sessionKey, writer),
               !.messageIdStore = MapSet(@, sessionKey, messageId)]

\* getWriter / getMessageId / popToolCallId results: <<>> is undefined, <<v>> is v
getWriter(st, sessionKey) ==
    IF MapHas(st.writerStore, sessionKey) THEN <<st.writerStore[sessionKey]>> ELSE <<>>

getMessageId(st, sessionKey) ==
    IF MapHas(st.messageIdStore, sessionKey)
    THEN <<st.messageIdStore[sessionKey]>> ELSE <<>>

\* variant: the writers of all sessions are dropped
clearWriter_All(st, sessionKey) ==
    [st EXCEPT !.writerStore = EmptyMap, !.messageIdStore = EmptyMap]

clearWriter(st, sessionKey) ==
    [st EXCEPT !.writerStore = MapDelete(@, sessionKey),
               !.messageIdStore = MapDelete(@, sessionKey)]

pushToolCallId(st, sessionKey, toolCallId) ==
    LET stack == IF MapHas(st.pendingStacks, sessionKey)
                 THEN st.pendingStacks[sessionKey] ELSE <<>>
    IN [st EXCEPT !.pendingStacks = MapSet(@, sessionKey, Append(stack, toolCallId))]

\* variant: the oldest pending id is returned, first-in-first-out
popToolCallIdResult_Fifo(st, sessionKey) ==
    IF MapHas(st.pendingStacks, sessionKey) /\ st.pendingStacks[sessionKey] # <<>>
    THEN <<st.pendingStacks[sessionKey][1]>>
    ELSE <<>>

popToolCallIdResult(st, sessionKey) ==
    IF MapHas(st.pendingStacks, sessionKey) /\ st.pendingStacks[sessionKey] # <<>>
    THEN <<st.pendingStacks[sessionKey][Len(st.pendingStacks[sessionKey])]>>
    ELSE <<>>

\* variant: the entry of a drained stack is kept
popToolCallId_KeepsEmpty(st, sessionKey) ==
    IF ~MapHas(st.pendingStacks, sessionKey) THEN st
    ELSE LET stack == st.pendingStacks[sessionKey]
             rest == IF stack = <<>> THEN stack ELSE SubSeq(stack, 1, Len(stack) - 1)
         IN [st EXCEPT !.pendingStacks = MapSet(@, sessionKey, rest)]

popToolCallId(st, sessionKey) ==
    IF ~MapHas(st.pendingStacks, sessionKey) THEN st
    ELSE LET stack == st.pendingStacks[sessionKey]
             rest == IF stack = <<>> THEN stack ELSE SubSeq(stack, 1, Len(stack) - 1)
         IN IF rest = <<>>
            THEN [st EXCEPT !.pendingStacks = MapDelete(@, sessionKey)]
            ELSE [st EXCEPT !.pendingStacks = MapSet(@, sessionKey, rest)]

markClientToolNames(st, sessionKey, names) ==
    [st EXCEPT !.clientToolNames =
        MapSet(@, sessionKey, {names[i] : i \in 1..Len(names)})]

isClientTool(st, sessionKey, toolName) ==
    IF MapHas(st.clientToolNames, sessionKey)
    THEN toolName \in st.clientToolNames[sessionKey] ELSE FALSE

clearClientToolNames(st, sessionKey) ==
    [st EXCEPT !.clientToolNames = MapDelete(@, sessionKey)]

setClientToolCalled(st, sessionKey) ==
    [st EXCEPT !.clientToolCalledFlags = MapSet(@, sessionKey, TRUE)]

\* variant: a session without a flag counts as flagged
wasClientToolCalled_DefaultTrue(st, sessionKey) ==
    IF MapHas(st.clientToolCalledFlags, sessionKey)
    THEN st.clientToolCalledFlags[sessionKey] ELSE TRUE

wasClientToolCalled(st, sessionKey) ==
    IF MapHas(st.clientToolCalledFlags, sessionKey)
    THEN st.clientToolCalledFlags[sessionKey] ELSE FALSE

clearClientToolCalled(st, sessionKey) ==
    [st EXCEPT !.clientToolCalledFlags = MapDelete(@, sessionKey)]

setToolFiredInRun(st, sessionKey) ==
    [st EXCEPT !.toolFiredFlags = MapSet(@, sessionKey, TRUE)]

wasToolFiredInRun(st, sessionKey) ==
    IF MapHas(st.toolFiredFlags, sessionKey)
    THEN st.toolFiredFlags[sessionKey] ELSE FALSE

(***************************************************************************)
(* http-handler.ts: the stream of one run                                  *)
(***************************************************************************)
InitRun ==
    [pc |-> "idle", threadId |-> "", runId |-> "", sessionKey |-> "",
     messageId |-> <<>>, closed |-> FALSE, messageStarted |-> FALSE,
     stream |-> <<>>, blocks |-> 0, ended |-> 0, aborted |-> FALSE,
     disconnected |-> FALSE, writeFailed |-> FALSE]

\* variant: a failed write does not close the stream
writeEvent_StaysOpen(rs, event, fails) ==
    IF rs.closed THEN rs
    ELSE IF fails THEN [rs EXCEPT !.writeFailed = TRUE]
    ELSE [rs EXCEPT !.stream = Append(@, event)]

\* variant: a writeEvent without the closed guard
writeEvent_IgnoresClosed(rs, event, fails) ==
    IF fails THEN [rs EXCEPT !.closed = TRUE, !.writeFailed = TRUE]
    ELSE [rs EXCEPT !.stream = Append(@, event)]

\* writeEvent: `fails` is whether res.write throws on this call
writeEvent(rs, event, fails) ==
    IF rs.closed THEN rs
    ELSE IF fails THEN [rs EXCEPT !.closed = TRUE, !.writeFailed = TRUE]
    ELSE [rs EXCEPT !.stream = Append(@, event)]

\* consecutive writeEvent calls; the failAt-th one throws (0: none does)
RECURSIVE WriteAll(_, _, _)
WriteAll(rs, events, failAt) ==
    IF events = <<>> THEN rs
    ELSE WriteAll(writeEvent(rs, Head(events), failAt = 1), Tail(events), failAt - 1)

\* variant: the stream is ended without setting the closed flag
EndResponse_StaysOpen(rs) == [rs EXCEPT !.ended = @ + 1]

\* res.end() after a terminal write
EndResponse(rs) == [rs EXCEPT !.closed = TRUE, !.ended = @ + 1]

\* which of the coming res.write calls may throw
FailChoices(rs, events) == IF rs.closed \/ ~env.faults THEN {0} ELSE 0..Len(events)

(***************************************************************************)
(* http-handler.ts: the dispatcher                                         *)
(***************************************************************************)
\* ---- request validation ----
\* messages of a request body: a role and a string content each
MessageInputs ==
    {<<>>,
     <<[role |-> "user", content |-> <<"h", "i">>]>>,
     <<[role |-> "tool", content |-> <<"7", "2", "F">>]>>,
     <<[role |-> "system", content |-> <<"s", "y", "s">>]>>,
     <<[role |-> "user", content |-> <<" ">>],
       [role |-> "tool", content |-> <<"x">>]>>,
     <<[role |-> "user", content |-> <<"h", "i">>],
       [role |-> "tool", content |-> <<"7", "2", "F">>]>>}

\* messages.some((m) => m.role === "user")
HasUserMessage(messages) ==
    \E i \in 1..Len(messages) : messages[i].role = "user"

RolePrefix(role) ==
    IF role = "user" THEN <<"U", "s", "e", "r", ":", " ">>
    ELSE IF role = "assistant"
         THEN <<"A", "s", "s", "i", "s", "t", "a", "n", "t", ":", " ">>
         ELSE <<"T", "o", "o", "l", ":", " ">>

\* the parts buildBodyFromMessages collects: one per message with a content
\* left after trimming and a role other than system
RECURSIVE BodyParts(_)
BodyParts(messages) ==
    IF messages = <<>> THEN <<>>
    ELSE LET msg == Head(messages)
             content == Trim(msg.content)
         IN (IF content = <<>> \/ msg.role \notin {"user", "assistant", "tool"}
             THEN <<>>
             ELSE <<RolePrefix(msg.role) \o content>>)
            \o BodyParts(Tail(messages))

\* the trimmed content of the last user message that had one
RECURSIVE LastUserBody(_)
LastUserBody(messages) ==
    IF messages = <<>> THEN <<>>
    ELSE LET msg == messages[Len(messages)]
         IN IF msg.role = "user" /\ Trim(msg.content) # <<>>
            THEN Trim(msg.content)
            ELSE LastUserBody(SubSeq(messages, 1, Len(messages) - 1))

RECURSIVE JoinLines(_)
JoinLines(parts) ==
    IF parts = <<>> THEN <<>>
    ELSE IF Len(parts) = 1 THEN parts[1]
         ELSE parts[1] \o <<"\n">> \o JoinLines(Tail(parts))

buildBodyFromMessages(messages) ==
    LET parts == BodyParts(messages)
        userMessages == {i \in 1..Len(messages) : messages[i].role = "user"}
    IN IF Cardinality(userMessages) = 1 /\ Len(parts) = 1
       THEN LastUserBody(messages)
       ELSE JoinLines(parts)

\* the two checks a request passes before the stream is opened
RequestAccepted(messages) ==
    /\ HasUserMessage(messages)
    /\ Trim(buildBodyFromMessages(messages)) # <<>>

PayloadText(payload) == IF payload.present THEN Trim(payload.text) ELSE <<>>

\* variant: the closed stream is not reported
sendToolResultReturn_Always(rs) == TRUE

sendToolResultReturn(rs) == ~rs.closed

sendBlockReplyReturn(rs, st, payload) ==
    /\ ~(rs.closed \/ wasClientToolCalled(st, rs.sessionKey))
    /\ PayloadText(payload) # <<>>

sendBlockReplyEmits(rs, st, payload) ==
    IF ~sendBlockReplyReturn(rs, st, payload) THEN <<>>
    ELSE (IF ~rs.messageStarted THEN <<TextMessageStart(rs.messageId)>> ELSE <<>>)
         \o <<TextMessageContent(rs.messageId, PayloadText(payload))>>

\* variant: a block reply does not record that the message was started
sendBlockReply_ForgetsStarted(rs, st, payload, failAt) ==
    IF ~sendBlockReplyReturn(rs, st, payload) THEN rs
    ELSE WriteAll(rs, sendBlockReplyEmits(rs, st, payload), failAt)

sendBlockReply(rs, st, payload, failAt) ==
    IF ~sendBlockReplyReturn(rs, st, payload) THEN rs
    ELSE WriteAll([rs EXCEPT !.messageStarted = TRUE],
                  sendBlockReplyEmits(rs, st, payload), failAt)

\* variant: the final reply keeps its text after a client tool call
sendFinalReplyText_Keeps(rs, st, payload) == PayloadText(payload)

sendFinalReplyText(rs, st, payload) ==
    IF wasClientToolCalled(st, rs.sessionKey) THEN <<>> ELSE PayloadText(payload)

\* variant: the final reply ends a message that was never started
sendFinalReplyEmits_AlwaysEnds(rs, st, payload) ==
    IF rs.closed THEN <<>>
    ELSE LET text == sendFinalReplyText(rs, st, payload)
         IN (IF text # <<>>
             THEN (IF ~rs.messageStarted
                   THEN <<TextMessageStart(rs.messageId)>> ELSE <<>>)
                  \o <<TextMessageContent(rs.messageId, text)>>
             ELSE <<>>)
            \o <<TextMessageEnd(rs.messageId), RunFinished(rs.threadId, rs.runId)>>

\* variant: the final reply opens a message without looking at messageStarted
sendFinalReplyEmits_Reopens(rs, st, payload) ==
    IF rs.closed THEN <<>>
    ELSE LET text == sendFinalReplyText(rs, st, payload)
             started == rs.messageStarted \/ text # <<>>
         IN (IF text # <<>>
             THEN <<TextMessageStart(rs.messageId),
                    TextMessageContent(rs.messageId, text)>>
             ELSE <<>>)
            \o (IF started THEN <<TextMessageEnd(rs.messageId)>> ELSE <<>>)
            \o <<RunFinished(rs.threadId, rs.runId)>>

\* variant: the final reply ends the tool calls still pending for the session
sendFinalReplyEmits_EndsPending(rs, st, payload) ==
    IF rs.closed THEN <<>>
    ELSE LET text == sendFinalReplyText(rs, st, payload)
             started == rs.messageStarted \/ text # <<>>
             pending == IF MapHas(st.pendingStacks, rs.sessionKey)
                        THEN st.pendingStacks[rs.sessionKey] ELSE <<>>
         IN (IF text # <<>>
             THEN (IF ~rs.messageStarted
                   THEN <<TextMessageStart(rs.messageId)>> ELSE <<>>)
                  \o <<TextMessageContent(rs.messageId, text)>>
             ELSE <<>>)
            \o (IF started THEN <<TextMessageEnd(rs.messageId)>> ELSE <<>>)
            \o [i \in 1..Len(pending) |-> ToolCallEnd(pending[i])]
            \o <<RunFinished(rs.threadId, rs.runId)>>

sendFinalReplyEmits(rs, st, payload) ==
    IF rs.closed THEN <<>>
    ELSE LET text == sendFinalReplyText(rs, st, payload)
             started == rs.messageStarted \/ text # <<>>
         IN (IF text # <<>>
             THEN (IF ~rs.messageStarted
                   THEN <<TextMessageStart(rs.messageId)>> ELSE <<>>)
                  \o <<TextMessageContent(rs.messageId, text)>>
             ELSE <<>>)
            \o (IF started THEN <<TextMessageEnd(rs.messageId)>> ELSE <<>>)
            \o <<RunFinished(rs.threadId, rs.runId)>>

sendFinalReply(rs, st, payload, failAt) ==
    IF rs.closed THEN rs
    ELSE LET text == sendFinalReplyText(rs, st, payload)
         IN EndResponse(
                WriteAll([rs EXCEPT !.messageStarted = @ \/ text # <<>>],
                         sendFinalReplyEmits(rs, st, payload), failAt))

(***************************************************************************)
(* http-handler.ts: after dispatch                                         *)
(***************************************************************************)
\* variant: a defensive close that forgets RUN_FINISHED
DefensiveCloseEmits_NoFinish(rs) ==
    IF rs.closed THEN <<>>
    ELSE (IF rs.messageStarted THEN <<TextMessageEnd(rs.messageId)>> ELSE <<>>)

DefensiveCloseEmits(rs) ==
    IF rs.closed THEN <<>>
    ELSE (IF rs.messageStarted THEN <<TextMessageEnd(rs.messageId)>> ELSE <<>>)
         \o <<RunFinished(rs.threadId, rs.runId)>>

\* variant: the defensive close ends the response whether or not it is closed
DefensiveClose_Unguarded(rs, failAt) ==
    EndResponse(WriteAll(rs, DefensiveCloseEmits(rs), failAt))

DefensiveClose(rs, failAt) ==
    IF rs.closed THEN rs
    ELSE EndResponse(WriteAll(rs, DefensiveCloseEmits(rs), failAt))

\* variant: the catch block reports the failed run as finished
CatchEmits_Finishes(rs, err) ==
    IF rs.closed THEN <<>> ELSE <<RunFinished(rs.threadId, rs.runId)>>

CatchEmits(rs, err) == IF rs.closed THEN <<>> ELSE <<RunError(err)>>

CatchClose(rs, err, failAt) ==
    IF rs.closed THEN rs
    ELSE EndResponse(WriteAll(rs, CatchEmits(rs, err), failAt))

\* variant: the finally block leaves the client-tool names behind
Cleanup_KeepsNames(st, sessionKey) ==
    clearClientToolCalled(clearWriter(st, sessionKey), sessionKey)

Cleanup(st, sessionKey) ==
    clearClientToolNames(clearClientToolCalled(clearWriter(st, sessionKey), sessionKey),
                         sessionKey)

(***************************************************************************)
(* index.ts: the tool lifecycle hooks                                      *)
(***************************************************************************)
\* variant: an empty parameter object counts as parameters
HasParams_Present(params) == params.present

HasParams(params) == params.present /\ Len(params.obj) > 0

\* the hook returns early: no session key, or no writer bound for it
beforeToolCallSkips(st, sk) == sk = NoSession \/ getWriter(st, sk) = <<>>

\* variant: the hook leaves the client tool call open
beforeToolCallEmits_NoEnd(st, sk, toolName, params, toolCallId) ==
    IF beforeToolCallSkips(st, sk) THEN <<>>
    ELSE <<ToolCallStart(toolCallId, toolName)>>
         \o (IF HasParams(params)
             THEN <<ToolCallArgs(toolCallId, JsonStringify(params.obj))>> ELSE <<>>)

beforeToolCallEmits(st, sk, toolName, params, toolCallId) ==
    IF beforeToolCallSkips(st, sk) THEN <<>>
    ELSE <<ToolCallStart(toolCallId, toolName)>>
         \o (IF HasParams(params)
             THEN <<ToolCallArgs(toolCallId, JsonStringify(params.obj))>> ELSE <<>>)
         \o (IF isClientTool(st, sk, toolName)
             THEN <<ToolCallEnd(toolCallId)>> ELSE <<>>)

\* variant: the id of a client tool call is pushed as well
beforeToolCallStore_PushesAll(st, sk, toolName, toolCallId) ==
    IF beforeToolCallSkips(st, sk) THEN st
    ELSE IF isClientTool(st, sk, toolName)
         THEN pushToolCallId(setClientToolCalled(setToolFiredInRun(st, sk), sk),
                             sk, toolCallId)
         ELSE pushToolCallId(setToolFiredInRun(st, sk), sk, toolCallId)

\* variant: the flags are set for a session that has no writer bound
beforeToolCallStore_MarksUnbound(st, sk, toolName, toolCallId) ==
    IF sk = NoSession THEN st
    ELSE IF getWriter(st, sk) = <<>>
         THEN setClientToolCalled(setToolFiredInRun(st, sk), sk)
         ELSE IF isClientTool(st, sk, toolName)
              THEN setClientToolCalled(setToolFiredInRun(st, sk), sk)
              ELSE pushToolCallId(setToolFiredInRun(st, sk), sk, toolCallId)

beforeToolCallStore(st, sk, toolName, toolCallId) ==
    IF beforeToolCallSkips(st, sk) THEN st
    ELSE IF isClientTool(st, sk, toolName)
         THEN setClientToolCalled(setToolFiredInRun(st, sk), sk)
         ELSE pushToolCallId(setToolFiredInRun(st, sk), sk, toolCallId)

\* variant: TOOL_CALL_END is written ahead of TOOL_CALL_RESULT
toolResultPersistEmits_EndFirst(st, sk) ==
    LET writer == getWriter(st, sk)
        toolCallId == popToolCallIdResult(st, sk)
        messageId == getMessageId(st, sk)
    IN IF sk = NoSession THEN <<>>
       ELSE IF writer # <<>> /\ toolCallId # <<>> /\ messageId # <<>>
            THEN <<ToolCallEnd(toolCallId[1]),
                   ToolCallResult(toolCallId[1], messageId[1])>>
            ELSE <<>>

\* variant: the result is written without a pending tool call id
toolResultPersistEmits_Unmatched(st, sk) ==
    LET writer == getWriter(st, sk)
        toolCallId == popToolCallIdResult(st, sk)
        messageId == getMessageId(st, sk)
        id == IF toolCallId # <<>> THEN toolCallId[1] ELSE ToolCallIdOf(0)
    IN IF sk = NoSession THEN <<>>
       ELSE IF writer # <<>> /\ messageId # <<>>
            THEN <<ToolCallResult(id, messageId[1]), ToolCallEnd(id)>>
            ELSE <<>>

toolResultPersistEmits(st, sk) ==
    LET writer == getWriter(st, sk)
        toolCallId == popToolCallIdResult(st, sk)
        messageId == getMessageId(st, sk)
    IN IF sk = NoSession THEN <<>>
       ELSE IF writer # <<>> /\ toolCallId # <<>> /\ messageId # <<>>
            THEN <<ToolCallResult(toolCallId[1], messageId[1]),
                   ToolCallEnd(toolCallId[1])>>
            ELSE <<>>

\* variant: the pending id is popped only when the result can be written
toolResultPersistStore_PopsIfBound(st, sk) ==
    IF sk = NoSession \/ getWriter(st, sk) = <<>> \/ getMessageId(st, sk) = <<>>
    THEN st ELSE popToolCallId(st, sk)

\* variant: the pending id is read and left on the stack
toolResultPersistStore_Peeks(st, sk) == st

toolResultPersistStore(st, sk) == IF sk = NoSession THEN st ELSE popToolCallId(st, sk)

(***************************************************************************)
(* client-tools.ts                                                         *)
(***************************************************************************)
\* the descriptors returned (<<>> stands for null)
clawgUiToolFactoryReturn(st, sk) ==
    IF sk = NoSession THEN <<>>
    ELSE LET clientTools == popToolsResult(st, sk)
         IN [i \in 1..Len(clientTools) |->
                [name |-> clientTools[i].name, label |-> clientTools[i].name]]

clawgUiToolFactoryStore(st, sk) == IF sk = NoSession THEN st ELSE popTools(st, sk)

(***************************************************************************)
(* State machine                                                           *)
(***************************************************************************)
InitStore ==
    [toolStore |-> EmptyMap, writerStore |-> EmptyMap, messageIdStore |-> EmptyMap,
     pendingStacks |-> EmptyMap, clientToolNames |-> EmptyMap,
     clientToolCalledFlags |-> EmptyMap, toolFiredFlags |-> EmptyMap]

InitState ==
    /\ runs = [r \in Runs |-> InitRun]
    /\ store = InitStore
    /\ nextId = 0
    /\ last = [op |-> "init"]
    /\ calls = <<>>

\* one request; res.write may throw and the client may disconnect
Init ==
    /\ InitState
    /\ env = [requests |-> {"A"}, threads |-> [r \in Runs |-> {"t1"}],
              faults |-> TRUE, disconnects |-> {"A"}, toolCalls |-> MaxToolCalls,
              texts |-> TextInputs, params |-> ParamInputs, quiet |-> FALSE, tools |-> ToolLists, after |-> Started]

\* one request whose pipeline nests tool calls; res.write does not throw
InitTools ==
    /\ InitState
    /\ env = [requests |-> {"A"}, threads |-> [r \in Runs |-> {"t1"}],
              faults |-> FALSE, disconnects |-> {"A"},
              toolCalls |-> MaxNestedToolCalls,
              texts |-> TextInputs, params |-> ParamInputs, quiet |-> FALSE, tools |-> ToolLists, after |-> Started]

\* two requests on one thread, one after the other or overlapping; res.write
\* does not throw and only the second client disconnects
InitPair ==
    /\ InitState
    /\ env = [requests |-> Runs, threads |-> [r \in Runs |-> {"t1"}],
              faults |-> FALSE, disconnects |-> {"B"},
              toolCalls |-> MaxPairToolCalls,
              texts |-> PairTextInputs, params |-> PairParamInputs,
              quiet |-> FALSE, tools |-> ToolLists, after |-> Started]

\* two requests on two threads, routed to two sessions; res.write does not
\* throw and only the second client disconnects
InitApart ==
    /\ InitState
    /\ env = [requests |-> Runs,
              threads |-> [r \in Runs |-> IF r = "A" THEN {"t1"} ELSE {"t2"}],
              faults |-> FALSE, disconnects |-> {"B"},
              toolCalls |-> MaxApartToolCalls,
              texts |-> ApartTextInputs, params |-> ApartParamInputs,
              quiet |-> FALSE, tools |-> ToolLists, after |-> Started]

\* one request, every call kept in the history, also one without any effect;
\* res.write does not throw
InitQuiet ==
    /\ InitState
    /\ env = [requests |-> {"A"}, threads |-> [r \in Runs |-> {"t1"}],
              faults |-> FALSE, disconnects |-> {"A"},
              toolCalls |-> MaxQuietToolCalls,
              texts |-> PairTextInputs, params |-> PairParamInputs,
              quiet |-> TRUE, tools |-> OrderedToolLists, after |-> Started]

\* two requests on one thread, the second one coming in when the handler of
\* the first is over; res.write does not throw
InitSeq ==
    /\ InitState
    /\ env = [requests |-> Runs, threads |-> [r \in Runs |-> {"t1"}],
              faults |-> FALSE, disconnects |-> {"A"},
              toolCalls |-> MaxSeqToolCalls,
              texts |-> ApartTextInputs, params |-> ApartParamInputs,
              quiet |-> FALSE, tools |-> ToolLists, after |-> Over]

\* one request whose tool calls nest, every call kept in the history;
\* res.write does not throw
InitStack ==
    /\ InitState
    /\ env = [requests |-> {"A"}, threads |-> [r \in Runs |-> {"t1"}],
              faults |-> FALSE, disconnects |-> {"A"},
              toolCalls |-> MaxStackToolCalls,
              texts |-> ApartTextInputs, params |-> ApartParamInputs,
              quiet |-> TRUE, tools |-> ToolLists, after |-> Started]

CountType(stream, type) == Cardinality({i \in 1..Len(stream) : stream[i].type = type})

\* the history keeps the last call that did something: a call that returns
\* without an effect leaves the whole state as it was, unless the environment
\* asks for every call to be kept
Log(rec) ==
    last' = IF /\ ~env.quiet
               /\ <<runs', store', nextId'>> = <<runs, store, nextId>>
               /\ rec.emits = <<>>
            THEN last ELSE rec

\* handleAguiRequest from the SSE setup to the await of recordInboundSession
StartRun(r, threadId, messages, tools, failAt) ==
    /\ r \in env.requests
    /\ runs[r].pc = "idle"
    /\ RequestAccepted(messages)
    /\ tools \in env.tools
    /\ threadId \in env.threads[r]
    /\ r = "B" => runs["A"].pc \in env.after    \* the runs are interchangeable
    /\ LET sessionKey == Route(threadId)
           rs0 == [InitRun EXCEPT !.pc = "recording", !.threadId = threadId,
                                  !.runId = RunIdOf(r), !.sessionKey = sessionKey,
                                  !.messageId = MessageIdOf(r)]
           emits == <<RunStarted(threadId, RunIdOf(r))>>
           st1 == IF Len(tools) > 0
                  THEN markClientToolNames(
                           stashTools(store, sessionKey, tools), sessionKey,
                           [i \in 1..Len(tools) |-> tools[i].name])
                  ELSE store
       IN /\ runs' = [runs EXCEPT ![r] = WriteAll(rs0, emits, failAt)]
          /\ store' = setWriter(st1, sessionKey, r, BoundMessageId(r))
          /\ UNCHANGED <<nextId, calls, env>>
          /\ Log([op |-> "StartRun", run |-> r, emits |-> emits,
                  messages |-> messages])

\* a request that fails the validation of its messages is answered with 400:
\* no stream is opened and no run starts
RejectRequest(r, messages) ==
    /\ r \in env.requests
    /\ runs[r].pc = "idle"
    /\ r = "B" => runs["A"].pc \in env.after
    /\ ~RequestAccepted(messages)
    /\ UNCHANGED <<runs, store, nextId, calls, env>>
    /\ Log([op |-> "RejectRequest", run |-> r, emits |-> <<>>,
            messages |-> messages, status |-> 400])

\* recordInboundSession resolves: the dispatcher is built and dispatch is called
RecordResolves(r) ==
    /\ runs[r].pc = "recording"
    /\ runs' = [runs EXCEPT ![r].pc = "dispatch"]
    /\ UNCHANGED <<store, nextId, calls, env>>
    /\ Log([op |-> "RecordResolves", run |-> r, emits |-> <<>>])

\* recordInboundSession rejects: the rejection leaves the handler
RecordRejects(r) ==
    /\ runs[r].pc = "recording"
    /\ runs' = [runs EXCEPT ![r].pc = "crashed"]
    /\ UNCHANGED <<store, nextId, calls, env>>
    /\ Log([op |-> "RecordRejects", run |-> r, emits |-> <<>>])

\* req emits "close": both listeners run, the second once it is registered
ClientDisconnect(r) ==
    /\ r \in env.disconnects
    /\ runs[r].pc # "idle"
    /\ ~runs[r].disconnected
    /\ runs' = [runs EXCEPT ![r].closed = TRUE,
                            ![r].disconnected = TRUE,
                            ![r].aborted = (runs[r].pc \in {"dispatch", "done"})]
    /\ UNCHANGED <<store, nextId, calls, env>>
    /\ Log([op |-> "ClientDisconnect", run |-> r, emits |-> <<>>])

\* the pipeline holds the dispatcher from the dispatch call on
DispatcherLive(r) == runs[r].pc \in {"dispatch", "done"}

SendToolResult(r) ==
    /\ DispatcherLive(r)
    /\ UNCHANGED <<runs, store, nextId, calls, env>>
    /\ Log([op |-> "sendToolResult", run |-> r, emits |-> <<>>,
            return |-> sendToolResultReturn(runs[r])])

SendBlockReply(r, payload, failAt) ==
    /\ DispatcherLive(r)
    /\ runs[r].blocks < MaxBlockReplies
    /\ runs' = [runs EXCEPT ![r] =
                  [sendBlockReply(@, store, payload, failAt) EXCEPT
                      !.blocks = @ + (IF sendBlockReplyReturn(runs[r], store, payload)
                                      THEN 1 ELSE 0)]]
    /\ UNCHANGED <<store, nextId, calls, env>>
    /\ Log([op |-> "sendBlockReply", run |-> r, text |-> PayloadText(payload),
            emits |-> sendBlockReplyEmits(runs[r], store, payload)])

SendFinalReply(r, payload, failAt) ==
    /\ DispatcherLive(r)
    /\ runs' = [runs EXCEPT ![r] = sendFinalReply(@, store, payload, failAt)]
    /\ UNCHANGED <<store, nextId, calls, env>>
    /\ Log([op |-> "sendFinalReply", run |-> r, text |-> PayloadText(payload),
            emits |-> sendFinalReplyEmits(runs[r], store, payload)])

\* history: the finally block of run r clears the session state, also that of
\* the tool calls made under another run of the same session
NoteCleanup(cs, r) ==
    [i \in 1..Len(cs) |->
        IF cs[i].run # r /\ cs[i].sessionKey = runs[r].sessionKey
        THEN [cs[i] EXCEPT !.clearedByOther = TRUE] ELSE cs[i]]

\* dispatchReplyFromConfig resolves: defensive close, then the finally block
DispatchReturns(r, failAt) ==
    /\ runs[r].pc = "dispatch"
    /\ runs' = [runs EXCEPT ![r] = [DefensiveClose(@, failAt) EXCEPT !.pc = "done"]]
    /\ store' = Cleanup(store, runs[r].sessionKey)
    /\ calls' = NoteCleanup(calls, r)
    /\ UNCHANGED <<nextId, env>>
    /\ Log([op |-> "DispatchReturns", run |-> r,
            emits |-> DefensiveCloseEmits(runs[r])])

\* dispatchReplyFromConfig rejects: catch, then the finally block
DispatchThrows(r, err, failAt) ==
    /\ runs[r].pc = "dispatch"
    /\ runs' = [runs EXCEPT ![r] = [CatchClose(@, err, failAt) EXCEPT !.pc = "done"]]
    /\ store' = Cleanup(store, runs[r].sessionKey)
    /\ calls' = NoteCleanup(calls, r)
    /\ UNCHANGED <<nextId, env>>
    /\ Log([op |-> "DispatchThrows", run |-> r, emits |-> CatchEmits(runs[r], err)])

BeforeToolCall(sk, toolName, params, failAt) ==
    LET toolCallId == ToolCallIdOf(nextId + 1)
        emits == beforeToolCallEmits(store, sk, toolName, params, toolCallId)
    IN /\ store' = beforeToolCallStore(store, sk, toolName, toolCallId)
       /\ IF beforeToolCallSkips(store, sk)
          THEN UNCHANGED <<runs, nextId, calls>>
          ELSE LET w == getWriter(store, sk)[1]
               IN /\ nextId < env.toolCalls
                  /\ runs' = [runs EXCEPT ![w] = WriteAll(@, emits, failAt)]
                  /\ nextId' = nextId + 1
                  /\ calls' = Append(calls,
                         [toolCallId |-> toolCallId, sessionKey |-> sk,
                          toolName |-> toolName, run |-> w,
                          at |-> Len(runs[w].stream), phase |-> runs[w].pc,
                          client |-> isClientTool(store, sk, toolName),
                          popped |-> FALSE, clearedByOther |-> FALSE])
       /\ UNCHANGED env
       /\ Log([op |-> "before_tool_call", sessionKey |-> sk, toolName |-> toolName,
               params |-> params, toolCallId |-> toolCallId, emits |-> emits,
               writer |-> getWriter(store, sk)])

ToolResultPersist(sk, failAt) ==
    LET emits == toolResultPersistEmits(store, sk)
    IN /\ IF emits = <<>>
          THEN UNCHANGED runs
          ELSE LET w == getWriter(store, sk)[1]
               IN /\ runs' = [runs EXCEPT ![w] = WriteAll(@, emits, failAt)]
       /\ store' = toolResultPersistStore(store, sk)
       /\ calls' = [i \in 1..Len(calls) |->
                      IF <<calls[i].toolCallId>> = popToolCallIdResult(store, sk)
                      THEN [calls[i] EXCEPT !.popped = TRUE] ELSE calls[i]]
       /\ UNCHANGED <<nextId, env>>
       /\ Log([op |-> "tool_result_persist", sessionKey |-> sk, emits |-> emits,
               popped |-> popToolCallIdResult(store, sk),
               writer |-> getWriter(store, sk)])

ToolFactory(sk) ==
    /\ store' = clawgUiToolFactoryStore(store, sk)
    /\ UNCHANGED <<runs, nextId, calls, env>>
    /\ Log([op |-> "clawgUiToolFactory", sessionKey |-> sk, emits |-> <<>>,
            return |-> clawgUiToolFactoryReturn(store, sk)])

Errors == {"Error: agent failed"}

\* the res.write calls of a hook go to the run whose writer is bound
HookFailChoices(sk, emits) ==
    IF emits = <<>> THEN {0} ELSE FailChoices(runs[getWriter(store, sk)[1]], emits)

Next ==
    \/ \E r \in Runs, t \in Threads, messages \in MessageInputs,
          tools \in OrderedToolLists :
          \E failAt \in FailChoices(InitRun, <<RunStarted(t, RunIdOf(r))>>) :
              StartRun(r, t, messages, tools, failAt)
    \/ \E r \in Runs, messages \in MessageInputs : RejectRequest(r, messages)
    \/ \E r \in Runs : RecordResolves(r)
    \/ \E r \in Runs : RecordRejects(r)
    \/ \E r \in Runs : ClientDisconnect(r)
    \/ \E r \in Runs : SendToolResult(r)
    \/ \E r \in Runs, payload \in env.texts :
          \E failAt \in FailChoices(runs[r], sendBlockReplyEmits(runs[r], store, payload)) :
              SendBlockReply(r, payload, failAt)
    \/ \E r \in Runs, payload \in env.texts :
          \E failAt \in FailChoices(runs[r], sendFinalReplyEmits(runs[r], store, payload)) :
              SendFinalReply(r, payload, failAt)
    \/ \E r \in Runs :
          \E failAt \in FailChoices(runs[r], DefensiveCloseEmits(runs[r])) :
              DispatchReturns(r, failAt)
    \/ \E r \in Runs, err \in Errors :
          \E failAt \in FailChoices(runs[r], CatchEmits(runs[r], err)) :
              DispatchThrows(r, err, failAt)
    \/ \E sk \in SessionInputs, toolName \in ToolNames, params \in env.params :
          \E failAt \in HookFailChoices(sk,
                 beforeToolCallEmits(store, sk, toolName, params,
                                     ToolCallIdOf(nextId + 1))) :
              BeforeToolCall(sk, toolName, params, failAt)
    \/ \E sk \in SessionInputs :
          \E failAt \in HookFailChoices(sk, toolResultPersistEmits(store, sk)) :
              ToolResultPersist(sk, failAt)
    \/ \E sk \in SessionInputs : ToolFactory(sk)

Spec == Init /\ [][Next]_vars

SpecTools == InitTools /\ [][Next]_vars

SpecPair == InitPair /\ [][Next]_vars

SpecApart == InitApart /\ [][Next]_vars

SpecQuiet == InitQuiet /\ [][Next]_vars

SpecStack == InitStack /\ [][Next]_vars

SpecSeq == InitSeq /\ [][Next]_vars

(***************************************************************************)
(* Properties of the event stream of a run                                 *)
(***************************************************************************)
TerminalTypes == {"RUN_FINISHED", "RUN_ERROR"}

TextTypes == {"TEXT_MESSAGE_START", "TEXT_MESSAGE_CONTENT", "TEXT_MESSAGE_END"}

Terminals(stream) == {i \in 1..Len(stream) : stream[i].type \in TerminalTypes}

Positions(stream, type) == {i \in 1..Len(stream) : stream[i].type = type}

HasType(events, type) == \E i \in 1..Len(events) : events[i].type = type

\* the handler of run r has run to its end
HandlerDone(r) == runs[r].pc = "done"

\* the stream of run r was cut by the client or by a failed write
StreamCut(r) == runs[r].disconnected \/ runs[r].writeFailed

\* C1 as stated: every run that emitted RUN_STARTED has exactly one terminal
\* event in its stream once its handler is done, also when the client
\* disconnected or a write failed during the run.
C1_ExactlyOneTerminalAlways ==
    \A r \in Runs :
        HandlerDone(r) /\ HasType(runs[r].stream, "RUN_STARTED")
            => Cardinality(Terminals(runs[r].stream)) = 1

\* C1 amended: a run that emitted RUN_STARTED and whose handler is done has
\* exactly one terminal event (RUN_FINISHED or RUN_ERROR), the last event of
\* its stream, whether dispatch returned or threw, unless the client
\* disconnected or a stream write failed during the run: then the stream has
\* at most one terminal event and may have none.
C1_ExactlyOneTerminalUnlessCut ==
    \A r \in Runs :
        HandlerDone(r) /\ HasType(runs[r].stream, "RUN_STARTED")
            => /\ Cardinality(Terminals(runs[r].stream)) <= 1
               /\ ~StreamCut(r) => Terminals(runs[r].stream) = {Len(runs[r].stream)}

\* the catch block closed an uncut stream with RUN_ERROR
C1_Witness ==
    /\ last.op = "DispatchThrows"
    /\ HandlerDone(last.run)
    /\ ~StreamCut(last.run)
    /\ last.emits # <<>>
    /\ runs[last.run].stream[Len(runs[last.run].stream)].type = "RUN_ERROR"

\* C2: in the stream of a run RUN_FINISHED and RUN_ERROR exclude each other
\* and each occurs at most once: a second sendFinalReply, the defensive close
\* after sendFinalReply and a throw of dispatch after sendFinalReply add no
\* terminal event.
C2_AtMostOneTerminal ==
    \A r \in Runs :
        /\ CountType(runs[r].stream, "RUN_FINISHED") <= 1
        /\ CountType(runs[r].stream, "RUN_ERROR") <= 1
        /\ ~(HasType(runs[r].stream, "RUN_FINISHED") /\ HasType(runs[r].stream, "RUN_ERROR"))

\* dispatch threw after sendFinalReply had finished the run
C2_Witness ==
    /\ last.op = "DispatchThrows"
    /\ last.emits = <<>>
    /\ ~StreamCut(last.run)
    /\ HasType(runs[last.run].stream, "RUN_FINISHED")

\* C3: once RUN_FINISHED or RUN_ERROR is in the stream of a run, no step
\* (sendBlockReply, sendFinalReply, a tool hook, the end of dispatch) writes
\* a further event to that stream.
C3_NothingAfterTerminal ==
    [][\A r \in Runs : Terminals(runs[r].stream) # {} => runs'[r].stream = runs[r].stream]_vars

\* a tool hook fired for a session whose bound run is already finished
C3_Witness ==
    /\ last.op = "before_tool_call"
    /\ last.writer # <<>>
    /\ last.emits # <<>>
    /\ Terminals(runs[last.writer[1]].stream) # {}
    /\ runs[last.writer[1]].pc = "dispatch"

\* C4: RUN_STARTED, carrying the threadId and runId of the request, is written
\* exactly once per run and is the first event of its stream; the stream of a
\* started run is empty only if that very first write threw.
C4_RunStartedFirstOnce ==
    \A r \in Runs :
        LET s == runs[r].stream
        IN /\ s # <<>> => /\ s[1].type = "RUN_STARTED"
                          /\ s[1].threadId = runs[r].threadId
                          /\ s[1].runId = runs[r].runId
                          /\ Positions(s, "RUN_STARTED") = {1}
           /\ runs[r].pc # "idle" /\ s = <<>> => runs[r].writeFailed
           /\ runs[r].pc = "idle" => s = <<>>

\* a tool hook wrote right behind RUN_STARTED, before dispatch began
C4_Witness ==
    \E r \in Runs :
        /\ runs[r].pc = "recording"
        /\ Len(runs[r].stream) >= 2
        /\ runs[r].stream[2].type = "TOOL_CALL_START"

\* the tool calls a before-call hook classified as client tools under run r
ClientCalls(r) == {i \in 1..Len(calls) : calls[i].run = r /\ calls[i].client}

\* no TEXT_MESSAGE_START or TEXT_MESSAGE_CONTENT behind the i-th tool call in
\* the stream of its run
NoTextBehind(i) ==
    LET s == runs[calls[i].run].stream
    IN \A j \in 1..Len(s) :
          j > calls[i].at => s[j].type \notin {"TEXT_MESSAGE_START", "TEXT_MESSAGE_CONTENT"}

\* C5 as stated: once a before-call hook has classified a client tool during a
\* run, no TEXT_MESSAGE_START or TEXT_MESSAGE_CONTENT follows in the stream of
\* that run, whatever is called later.
C5_NoTextAfterClientTool ==
    \A r \in Runs : \A i \in ClientCalls(r) : NoTextBehind(i)

\* C5 amended: once a before-call hook has classified a client tool during a
\* run, no TEXT_MESSAGE_START or TEXT_MESSAGE_CONTENT follows in the stream of
\* that run for any later sendBlockReply and sendFinalReply, provided no other
\* run of the same session runs its cleanup in between; a sendFinalReply or
\* defensive close that then writes still ends the run with RUN_FINISHED.
C5_NoTextAfterClientToolUntilForeignCleanup ==
    \A r \in Runs : \A i \in ClientCalls(r) :
        /\ ~calls[i].clearedByOther => NoTextBehind(i)
        /\ last.op \in {"sendFinalReply", "DispatchReturns"} /\ last.run = r
              /\ last.emits # <<>>
              => last.emits[Len(last.emits)].type = "RUN_FINISHED"

\* sendFinalReply with text after a client tool call wrote RUN_FINISHED only
C5_Witness ==
    /\ last.op = "sendFinalReply"
    /\ last.text # <<>>
    /\ ClientCalls(last.run) # {}
    /\ \A i \in ClientCalls(last.run) : ~calls[i].clearedByOther
    /\ last.emits = <<RunFinished(runs[last.run].threadId, runs[last.run].runId)>>
    /\ runs[last.run].stream[Len(runs[last.run].stream)].type = "RUN_FINISHED"

\* C6: the text events of a stream are well ordered: at most one
\* TEXT_MESSAGE_START, directly before the first TEXT_MESSAGE_CONTENT; every
\* TEXT_MESSAGE_CONTENT behind the START and before the END; at most one
\* TEXT_MESSAGE_END, behind the START; all with the message id of the run.
C6_TextWellOrdered ==
    \A r \in Runs :
        LET s == runs[r].stream
            starts == Positions(s, "TEXT_MESSAGE_START")
            contents == Positions(s, "TEXT_MESSAGE_CONTENT")
            ends == Positions(s, "TEXT_MESSAGE_END")
        IN /\ Cardinality(starts) <= 1
           /\ Cardinality(ends) <= 1
           /\ \A c \in contents : /\ \E b \in starts : b < c
                                  /\ \A e \in ends : c < e
           /\ \A c \in contents :
                 (\A d \in contents : c <= d) => (c - 1) \in starts
           /\ \A e \in ends : \E b \in starts : b < e
           /\ \A i \in 1..Len(s) :
                 s[i].type \in TextTypes => <<s[i].messageId>> = <<MessageIdOf(r)>>

\* a message of two chunks with a tool event between them, then ended
C6_Witness ==
    \E r \in Runs :
        LET s == runs[r].stream
        IN /\ Cardinality(Positions(s, "TEXT_MESSAGE_CONTENT")) = 2
           /\ Cardinality(Positions(s, "TEXT_MESSAGE_END")) = 1
           /\ \E i \in Positions(s, "TOOL_CALL_START") :
                 \E c, d \in Positions(s, "TEXT_MESSAGE_CONTENT") : c < i /\ i < d

\* C7: if TEXT_MESSAGE_START is in the stream of a run then exactly one
\* TEXT_MESSAGE_END is written before the terminal event, on every way the
\* run ends: sendFinalReply, the defensive close, dispatch throwing after
\* block replies.
C7_TextEndedBeforeTerminal ==
    \A r \in Runs :
        LET s == runs[r].stream
        IN HasType(s, "TEXT_MESSAGE_START") /\ Terminals(s) # {}
              => /\ Cardinality(Positions(s, "TEXT_MESSAGE_END")) = 1
                 /\ \A e \in Positions(s, "TEXT_MESSAGE_END") :
                       \A t \in Terminals(s) : e < t

C10_ClientToolThreeEvents ==
    /\ last.op = "before_tool_call"
    /\ last.writer # <<>>
    /\ isClientTool(store, last.sessionKey, last.toolName)
    /\ HasParams(last.params)
    => /\ last.emits =
            <<[type |-> "TOOL_CALL_START", toolCallId |-> last.toolCallId,
               toolCallName |-> last.toolName],
              [type |-> "TOOL_CALL_ARGS", toolCallId |-> last.toolCallId,
               delta |-> JsonStringify(last.params.obj)],
              [type |-> "TOOL_CALL_END", toolCallId |-> last.toolCallId]>>
       /\ \A i \in 1..(Len(calls) - 1) : calls[i].toolCallId # last.toolCallId
       /\ wasClientToolCalled(store, last.sessionKey)
       /\ LET s == runs[last.writer[1]].stream
          IN ~runs[last.writer[1]].closed
                => Len(s) >= 3 /\ SubSeq(s, Len(s) - 2, Len(s)) = last.emits

\* the hook wrote {"city":"Tokyo"} for get_weather to an open stream
C10_Witness ==
    /\ last.op = "before_tool_call"
    /\ last.writer # <<>>
    /\ last.toolName = ClientToolName
    /\ isClientTool(store, last.sessionKey, last.toolName)
    /\ HasParams(last.params)
    /\ ~runs[last.writer[1]].closed
    /\ Len(last.emits) = 3
    /\ last.emits[2].delta =
          <<"{", "\"", "city", "\"", ":", "\"", "Tokyo", "\"", "}">>
    /\ runs[last.writer[1]].stream[Len(runs[last.writer[1]].stream)].type
          = "TOOL_CALL_END"
    /\ wasClientToolCalled(store, last.sessionKey)

\* every id on a pending stack was pushed for a host-executed tool call of
\* that session
PendingOnlyHost ==
    \A sk \in DOMAIN store.pendingStacks :
        \A k \in 1..Len(store.pendingStacks[sk]) :
            \E i \in 1..Len(calls) :
                /\ calls[i].toolCallId = store.pendingStacks[sk][k]
                /\ calls[i].sessionKey = sk
                /\ ~calls[i].client

\* C11: a before-call hook that classifies its tool as client-executed leaves
\* every pending tool-call stack as it was, and after any sequence of hook
\* calls the pending stacks hold only ids of host-executed tool calls.
C11_ClientToolSkipsStack ==
    [][/\ PendingOnlyHost'
       /\ Len(calls') = Len(calls) + 1 /\ calls'[Len(calls')].client
             => store'.pendingStacks = store.pendingStacks]_vars

\* a client tool call was made while a host tool call is pending
C11_Witness ==
    /\ last.op = "before_tool_call"
    /\ Len(calls) = 2
    /\ ~calls[1].client /\ calls[2].client
    /\ calls[1].sessionKey = calls[2].sessionKey
    /\ store.pendingStacks[calls[1].sessionKey] = <<calls[1].toolCallId>>

C13_ArgsIffNonEmptyParams ==
    last.op = "before_tool_call" /\ last.writer # <<>>
       => /\ HasType(last.emits, "TOOL_CALL_ARGS")
                <=> (last.params.present /\ Len(last.params.obj) >= 1)
          /\ isClientTool(store, last.sessionKey, last.toolName)
                /\ ~(last.params.present /\ Len(last.params.obj) >= 1)
             => last.emits =
                   <<[type |-> "TOOL_CALL_START", toolCallId |-> last.toolCallId,
                      toolCallName |-> last.toolName],
                     [type |-> "TOOL_CALL_END", toolCallId |-> last.toolCallId]>>

\* get_weather was called with the empty object {} and emitted two events
C13_Witness ==
    /\ last.op = "before_tool_call"
    /\ last.writer # <<>>
    /\ isClientTool(store, last.sessionKey, last.toolName)
    /\ last.params = [present |-> TRUE, obj |-> <<>>]
    /\ Len(last.emits) = 2
    /\ last.emits[2].type = "TOOL_CALL_END"

\* C14: after a run completed, by normal finish, by a dispatch error or with
\* the client disconnected during the run, the store holds for its session
\* no bound emitter, no message id, no client-tool-called flag and no
\* client-tool-name set.
C14_EmitterFlagNamesCleared ==
    \A r \in Runs :
        HandlerDone(r)
           => /\ ~MapHas(store.writerStore, runs[r].sessionKey)
              /\ ~MapHas(store.messageIdStore, runs[r].sessionKey)
              /\ ~MapHas(store.clientToolCalledFlags, runs[r].sessionKey)
              /\ ~MapHas(store.clientToolNames, runs[r].sessionKey)

\* dispatch returned for a run that made a client tool call and whose client
\* had disconnected
C14_Witness ==
    /\ last.op = "DispatchReturns"
    /\ HandlerDone(last.run)
    /\ runs[last.run].disconnected
    /\ ClientCalls(last.run) # {}
    /\ ~MapHas(store.clientToolCalledFlags, runs[last.run].sessionKey)

\* C15: when a run has ended, also the stashed tool list, the pending
\* tool-call id stack and the tool-fired-this-run flag of its session are
\* absent from the store.
C15_AllSessionStateCleared ==
    \A r \in Runs :
        HandlerDone(r)
           => /\ ~MapHas(store.toolStore, runs[r].sessionKey)
              /\ ~MapHas(store.pendingStacks, runs[r].sessionKey)
              /\ ~MapHas(store.toolFiredFlags, runs[r].sessionKey)

\* C16: once a write to the response has failed the closed flag is set and
\* stays set and no step (dispatcher method, hook, defensive close, catch
\* block) adds an event to the stream; the events written before the failure
\* stay, and the call whose write failed returns normally.
C16_WriteFailureSilences ==
    [][\A r \in Runs :
          /\ runs[r].writeFailed
                => runs'[r].stream = runs[r].stream /\ runs'[r].closed
          /\ runs'[r].writeFailed /\ ~runs[r].writeFailed
                => /\ runs'[r].closed
                   /\ runs'[r].pc = "crashed" => runs[r].pc = "crashed"
                   /\ Len(runs'[r].stream) >= Len(runs[r].stream)
                   /\ SubSeq(runs'[r].stream, 1, Len(runs[r].stream)) = runs[r].stream]_vars

\* a write failed after two events got through and the handler then ran to
\* its end: the defensive close was dropped
C16_Witness ==
    \E r \in Runs :
        /\ HandlerDone(r)
        /\ runs[r].writeFailed
        /\ ~runs[r].disconnected
        /\ Len(runs[r].stream) >= 2
        /\ Terminals(runs[r].stream) = {}

\* C17: when dispatch throws while the stream is still open, exactly one
\* RUN_ERROR with the error description is emitted, the stream holds no
\* RUN_FINISHED and the response is ended; when the stream is already closed
\* the failure emits nothing and ends nothing.
C17_DispatchErrorEmitsRunError ==
    [][\A r \in Runs :
          /\ runs[r].pc = "dispatch"
          /\ runs'[r].pc = "done"
          /\ last'.op = "DispatchThrows"
          => IF ~runs[r].closed
             THEN /\ \E err \in Errors :
                        /\ last'.emits = <<[type |-> "RUN_ERROR", message |-> err]>>
                        /\ \/ runs'[r].stream = Append(runs[r].stream, last'.emits[1])
                           \/ runs'[r].writeFailed /\ runs'[r].stream = runs[r].stream
                  /\ ~HasType(runs'[r].stream, "RUN_FINISHED")
                  /\ runs'[r].closed
                  /\ runs'[r].ended = runs[r].ended + 1
             ELSE /\ last'.emits = <<>>
                  /\ runs'[r].stream = runs[r].stream
                  /\ runs'[r].ended = runs[r].ended]_vars

\* dispatch threw after a block reply had been streamed: RUN_ERROR is the
\* last event and the response was ended once
C17_Witness ==
    /\ last.op = "DispatchThrows"
    /\ last.emits = <<RunError("Error: agent failed")>>
    /\ HasType(runs[last.run].stream, "TEXT_MESSAGE_CONTENT")
    /\ runs[last.run].stream[Len(runs[last.run].stream)] = last.emits[1]
    /\ runs[last.run].ended = 1

\* C18: in a run without block reply text and without tool events, an empty
\* final reply, or the return of dispatch when sendFinalReply was never
\* called, makes the stream exactly RUN_STARTED, RUN_FINISHED, without any
\* text-message event, and ends the response (the stream being open and the
\* write succeeding).
C18_EmptyRunStartedFinished ==
    [][\A r \in Runs :
          /\ Len(runs[r].stream) = 1
          /\ ~runs[r].closed
          /\ runs'[r] # runs[r]
          /\ \/ last'.op = "sendFinalReply" /\ last'.text = <<>>
             \/ last'.op = "DispatchReturns"
          /\ last'.run = r
          /\ ~runs'[r].writeFailed
          => /\ runs'[r].stream =
                   <<[type |-> "RUN_STARTED", threadId |-> runs[r].threadId,
                      runId |-> runs[r].runId],
                     [type |-> "RUN_FINISHED", threadId |-> runs[r].threadId,
                      runId |-> runs[r].runId]>>
             /\ runs'[r].closed
             /\ runs'[r].ended = 1]_vars

\* sendFinalReply with blank text finished an otherwise silent run
C18_Witness ==
    /\ last.op = "sendFinalReply"
    /\ last.text = <<>>
    /\ calls = <<>>
    /\ runs[last.run].blocks = 0
    /\ Len(runs[last.run].stream) = 2
    /\ runs[last.run].stream[2].type = "RUN_FINISHED"
    /\ runs[last.run].ended = 1

\* C19: in a run without tool calls, sendFinalReply with non-empty text,
\* after zero or more non-empty block replies, makes the stream exactly
\* RUN_STARTED, TEXT_MESSAGE_START, one TEXT_MESSAGE_CONTENT per block reply
\* and one for the final text, TEXT_MESSAGE_END, RUN_FINISHED (the stream
\* being open and the writes succeeding).
C19_TextRunSequence ==
    [][\A r \in Runs :
          /\ ~runs[r].closed
          /\ \A i \in 1..Len(calls) : calls[i].run # r
          /\ runs'[r] # runs[r]
          /\ last'.op = "sendFinalReply"
          /\ last'.run = r
          /\ last'.text # <<>>
          /\ ~runs'[r].writeFailed
          => LET s == runs'[r].stream
                 n == Len(s)
             IN /\ n = 5 + runs[r].blocks
                /\ s[1].type = "RUN_STARTED"
                /\ s[2].type = "TEXT_MESSAGE_START"
                /\ \A k \in 3..(n - 2) : s[k].type = "TEXT_MESSAGE_CONTENT"
                /\ s[n - 2].delta = last'.text
                /\ s[n - 1].type = "TEXT_MESSAGE_END"
                /\ s[n].type = "RUN_FINISHED"
                /\ runs'[r].closed
                /\ runs'[r].ended = 1]_vars

\* one block reply and then the final reply "hi": six events
C19_Witness ==
    /\ last.op = "sendFinalReply"
    /\ last.text = <<"h", "i">>
    /\ calls = <<>>
    /\ runs[last.run].blocks = 1
    /\ Len(runs[last.run].stream) = 6
    /\ runs[last.run].stream[3].type = "TEXT_MESSAGE_CONTENT"
    /\ runs[last.run].stream[4].type = "TEXT_MESSAGE_CONTENT"
    /\ runs[last.run].stream[6].type = "RUN_FINISHED"

\* C20: after a client disconnect the closed flag of the run is set, and the
\* cancellation signal handed to dispatch is aborted, also when the client
\* disconnected while the handler was suspended before it invoked dispatch.
C20_DisconnectClosesAndAborts ==
    \A r \in Runs :
        runs[r].disconnected
           => /\ runs[r].closed
              /\ DispatcherLive(r) => runs[r].aborted

\* C21: a before_tool_call invocation without a session key, or for a session
\* that has no writer bound, does nothing: it hands no event to any stream,
\* pushes no tool call id, sets neither the tool-fired nor the
\* client-tool-called flag, draws no id and leaves every run as it was.
C21_BeforeCallNoOpUnbound ==
    [][(/\ last'.op = "before_tool_call"
        /\ \/ last'.sessionKey = NoSession
           \/ ~MapHas(store.writerStore, last'.sessionKey))
       => (/\ last'.emits = <<>>
           /\ UNCHANGED <<runs, store, nextId, calls>>)]_vars

\* the hook was called for a session whose run is over and whose writer is
\* cleared
C21_Witness ==
    /\ last.op = "before_tool_call"
    /\ last.sessionKey = "s1"
    /\ last.writer = <<>>
    /\ runs["A"].pc = "done"
    /\ ~MapHas(store.writerStore, "s1")

\* C22: a tool_result_persist invocation hands no TOOL_CALL_RESULT and no
\* TOOL_CALL_END to any stream, and leaves every run as it was, whenever the
\* session key is missing, the session has no pending tool call id, no writer
\* is bound for it, or no message id is bound for it.
C22_AfterResultSilentUnmatched ==
    [][(/\ last'.op = "tool_result_persist"
        /\ \/ last'.sessionKey = NoSession
           \/ ~MapHas(store.pendingStacks, last'.sessionKey)
           \/ ~MapHas(store.writerStore, last'.sessionKey)
           \/ ~MapHas(store.messageIdStore, last'.sessionKey))
       => (/\ last'.emits = <<>>
           /\ UNCHANGED <<runs, nextId>>)]_vars

\* the hook fired during dispatch, with the writer bound, for a session that
\* had no tool call pending
C22_Witness ==
    /\ last.op = "tool_result_persist"
    /\ last.sessionKey = "s1"
    /\ last.popped = <<>>
    /\ last.writer = <<"A">>
    /\ runs["A"].pc = "dispatch"
    /\ ~HasType(runs["A"].stream, "TOOL_CALL_RESULT")

\* what the store holds for one session: writer, message id, stash,
\* client-tool names, pending stack and the two flags
SessionState(st, sk) ==
    [f \in DOMAIN st |-> IF MapHas(st[f], sk) THEN <<st[f][sk]>> ELSE <<>>]

\* the session a step is addressed to, read from the history of the step
AddressedSession(rec, rs) ==
    IF "sessionKey" \in DOMAIN rec THEN rec.sessionKey
    ELSE IF "run" \in DOMAIN rec THEN rs[rec.run].sessionKey ELSE NoSession

\* event ev in the stream of run r belongs to that run and its session
OwnEvent(r, ev) ==
    IF ev.type \in {"RUN_STARTED", "RUN_FINISHED"}
    THEN ev.threadId = runs[r].threadId /\ ev.runId = RunIdOf(r)
    ELSE IF ev.type \in TextTypes
    THEN ev.messageId = MessageIdOf(r)
    ELSE IF ev.type = "RUN_ERROR" THEN TRUE
    ELSE /\ \E i \in 1..Len(calls) :
              /\ calls[i].toolCallId = ev.toolCallId
              /\ calls[i].sessionKey = runs[r].sessionKey
              /\ calls[i].run = r
         /\ ev.type = "TOOL_CALL_RESULT" => ev.messageId = BoundMessageId(r)

\* C23: with two runs in flight on two session keys, the stream of each run
\* holds only events of its own run and session, and every step addressed to
\* one session leaves what the store holds for the other session (writer,
\* message id, stash, client-tool names, pending stack, flags) and the run of
\* the other session unchanged.
C23_SessionsIsolated ==
    /\ [](\A r \in Runs : \A i \in 1..Len(runs[r].stream) :
              OwnEvent(r, runs[r].stream[i]))
    /\ [][\A o \in Sessions :
              o # AddressedSession(last', runs')
              => /\ SessionState(store', o) = SessionState(store, o)
                 /\ \A r \in Runs :
                       runs[r].sessionKey = o => runs'[r] = runs[r]]_vars

\* both runs are in dispatch at once, one streamed text and the other a tool
\* call, and the store holds a writer for each session
C23_Witness ==
    /\ runs["A"].pc = "dispatch" /\ runs["B"].pc = "dispatch"
    /\ runs["A"].sessionKey = "s1" /\ runs["B"].sessionKey = "s2"
    /\ HasType(runs["A"].stream, "TEXT_MESSAGE_CONTENT")
    /\ HasType(runs["B"].stream, "TOOL_CALL_START")
    /\ getWriter(store, "s1") = <<"A">> /\ getWriter(store, "s2") = <<"B">>

EndsOf(id) ==
    UNION {{<<r, i>> : i \in {j \in Positions(runs[r].stream, "TOOL_CALL_END") :
                                 runs[r].stream[j].toolCallId = id}} : r \in Runs}

\* the places of the TOOL_CALL_START events of id in stream s
StartsOf(s, id) ==
    {i \in Positions(s, "TOOL_CALL_START") : s[i].toolCallId = id}

\* C25 as stated: once the handler of a run is done and its stream was not cut,
\* every TOOL_CALL_START in the stream has exactly one TOOL_CALL_END with the
\* same id in that stream.
C25_EveryStartHasOneEnd ==
    \A r \in Runs :
        HandlerDone(r) /\ ~StreamCut(r)
        => \A i \in Positions(runs[r].stream, "TOOL_CALL_START") :
              Cardinality({j \in Positions(runs[r].stream, "TOOL_CALL_END") :
                  runs[r].stream[j].toolCallId = runs[r].stream[i].toolCallId}) = 1

\* C25: no tool call id receives two TOOL_CALL_END events. A client tool
\* call whose TOOL_CALL_START is in the stream has its TOOL_CALL_END in the
\* same stream, written by the same before_tool_call invocation with at most
\* TOOL_CALL_ARGS in between. A host tool call has a TOOL_CALL_END only
\* directly behind the TOOL_CALL_RESULT of the same id, written by the
\* tool_result_persist invocation that popped the id, behind its
\* TOOL_CALL_START; until then it has none.
C25_AtMostOneEndPerCall ==
    \A c \in 1..Len(calls) :
        LET id == calls[c].toolCallId
            s == runs[calls[c].run].stream
        IN /\ Cardinality(EndsOf(id)) <= 1
           /\ calls[c].client
              => \A i \in StartsOf(s, id) :
                    \E e \in i + 1 .. i + 2 :
                        /\ <<calls[c].run, e>> \in EndsOf(id)
                        /\ \A k \in i + 1 .. e - 1 :
                              s[k].type = "TOOL_CALL_ARGS" /\ s[k].toolCallId = id
           /\ ~calls[c].client
              => \A <<r, e>> \in EndsOf(id) :
                    /\ r = calls[c].run
                    /\ calls[c].popped
                    /\ e > 1
                    /\ s[e - 1].type = "TOOL_CALL_RESULT"
                    /\ s[e - 1].toolCallId = id
                    /\ \E i \in StartsOf(s, id) : i < e - 1
           /\ ~calls[c].client /\ ~calls[c].popped => EndsOf(id) = {}

\* a client tool call and a host tool call of one run both ended, one
\* TOOL_CALL_END each
C25_Witness ==
    \E c, d \in 1..Len(calls) :
        /\ calls[c].client /\ ~calls[d].client
        /\ Cardinality(EndsOf(calls[c].toolCallId)) = 1
        /\ Cardinality(EndsOf(calls[d].toolCallId)) = 1
        /\ StartsOf(runs["A"].stream, calls[c].toolCallId) # {}
        /\ StartsOf(runs["A"].stream, calls[d].toolCallId) # {}

\* the messages of a request are tool results and nothing else
ToolOnly(messages) ==
    /\ messages # <<>>
    /\ \A i \in 1..Len(messages) : messages[i].role = "tool"

\* C26 as stated: a request whose messages hold only tool-role messages is
\* accepted, never answered with 400: its run starts, with RUN_STARTED as the
\* first event of the stream.
C26_ToolOnlyAccepted ==
    /\ last.op = "RejectRequest" => ~ToolOnly(last.messages)
    /\ last.op = "StartRun" /\ ToolOnly(last.messages)
       => last.emits[1].type = "RUN_STARTED"

\* C27: sendToolResult hands no event to the stream and changes neither a run
\* nor the store; it returns true exactly when the stream of its run is not
\* closed; and a sendFinalReply that follows a sendToolResult on an open
\* stream still ends the stream with RUN_FINISHED and closes it.
C27_SendToolResultInert ==
    [][/\ last'.op = "sendToolResult"
          => /\ last'.emits = <<>>
             /\ UNCHANGED <<runs, store, nextId, calls>>
             /\ last'.return = ~runs[last'.run].closed
       /\ (/\ last.op = "sendToolResult"
           /\ last'.op = "sendFinalReply"
           /\ last'.run = last.run
           /\ ~runs[last.run].closed)
          => LET s == runs'[last.run].stream
             IN /\ s[Len(s)] = [type |-> "RUN_FINISHED",
                                threadId |-> runs[last.run].threadId,
                                runId |-> RunIdOf(last.run)]
                /\ CountType(s, "RUN_FINISHED") = 1
                /\ runs'[last.run].closed]_vars

\* sendToolResult was called during dispatch, behind streamed text, and
\* returned true
C27_Witness ==
    /\ last.op = "sendToolResult"
    /\ last.return = TRUE
    /\ runs[last.run].pc = "dispatch"
    /\ ~runs[last.run].closed
    /\ HasType(runs[last.run].stream, "TEXT_MESSAGE_CONTENT")

\* sendToolResult was called on a closed stream and returned false
C27_WitnessClosed ==
    /\ last.op = "sendToolResult"
    /\ last.return = FALSE
    /\ runs[last.run].closed

\* C28: clawgUiToolFactory returns no tools when the session key is absent or
\* nothing is stashed for the session, and then changes nothing; otherwise it
\* returns one descriptor per stashed definition, in the stashed order and
\* with the same names, and removes the stash of that session and nothing
\* else, so that a second call returns no tools.
C28_FactoryDrainsStash ==
    [][last'.op = "clawgUiToolFactory"
       => LET sk == last'.sessionKey
              stashed == IF sk # NoSession /\ MapHas(store.toolStore, sk)
                         THEN store.toolStore[sk] ELSE <<>>
          IN /\ UNCHANGED <<runs, nextId, calls>>
             /\ stashed = <<>> => last'.return = <<>> /\ store' = store
             /\ stashed # <<>>
                => /\ Len(last'.return) = Len(stashed)
                   /\ \A i \in 1..Len(stashed) :
                         last'.return[i].name = stashed[i].name
                   /\ ~MapHas(store'.toolStore, sk)
                   /\ \A o \in DOMAIN store.toolStore \ {sk} :
                         /\ MapHas(store'.toolStore, o)
                         /\ store'.toolStore[o] = store.toolStore[o]
                   /\ [store' EXCEPT !.toolStore = store.toolStore] = store]_vars

\* the factory returned the two stashed tools in their order and the stash of
\* the session is gone
C28_Witness ==
    /\ last.op = "clawgUiToolFactory"
    /\ last.sessionKey = "s1"
    /\ Len(last.return) = 2
    /\ last.return[1].name = ClientToolName
    /\ last.return[2].name = "get_time"
    /\ ~MapHas(store.toolStore, "s1")

\* the pending stack the store holds for a session, empty when it holds none
StackOf(st, sk) ==
    IF MapHas(st.pendingStacks, sk) THEN st.pendingStacks[sk] ELSE <<>>

\* the ids pushed for a session and not popped since, in the order of the
\* pushes
PendingIds(sk) ==
    LET pending == SelectSeq(calls, LAMBDA c :
                       c.sessionKey = sk /\ ~c.client /\ ~c.popped)
    IN [i \in 1..Len(pending) |-> pending[i].toolCallId]

\* C29: the store never holds an empty pending stack, the stack of a session
\* holds exactly the ids pushed and not yet popped, in push order, and a pop
\* returns nothing for a session without pending ids and otherwise the id
\* pushed last, which it removes.
C29_PendingStackLifo ==
    /\ [](\A sk \in Sessions :
              /\ MapHas(store.pendingStacks, sk) => store.pendingStacks[sk] # <<>>
              /\ StackOf(store, sk) = PendingIds(sk))
    /\ [][last'.op = "tool_result_persist" /\ last'.sessionKey # NoSession
          => LET pend == PendingIds(last'.sessionKey)
             IN /\ pend = <<>>
                   => /\ last'.popped = <<>>
                      /\ store'.pendingStacks = store.pendingStacks
                /\ pend # <<>>
                   => /\ last'.popped = <<pend[Len(pend)]>>
                      /\ StackOf(store', last'.sessionKey)
                            = SubSeq(pend, 1, Len(pend) - 1)]_vars

\* two ids were pushed and the second one popped: the first is what is left
C29_Witness ==
    /\ last.op = "tool_result_persist"
    /\ Len(calls) = 2
    /\ ~calls[1].client /\ ~calls[2].client
    /\ last.popped = <<calls[2].toolCallId>>
    /\ StackOf(store, "s1") = <<calls[1].toolCallId>>

\* the names of a list of tools, as the handler hands them to
\* markClientToolNames
NamesOf(tools) == [i \in 1..Len(tools) |-> tools[i].name]

\* calling the write operation twice in a row with the same arguments leaves
\* store st as calling it once does, for the seven operations that set or
\* delete an entry
SetAndClearIdempotent(st) ==
    \A sk \in Sessions :
        /\ \A tools \in OrderedToolLists :
              /\ stashTools(stashTools(st, sk, tools), sk, tools)
                    = stashTools(st, sk, tools)
              /\ markClientToolNames(
                     markClientToolNames(st, sk, NamesOf(tools)), sk, NamesOf(tools))
                    = markClientToolNames(st, sk, NamesOf(tools))
        /\ \A r \in Runs :
              setWriter(setWriter(st, sk, r, BoundMessageId(r)), sk, r, BoundMessageId(r))
                 = setWriter(st, sk, r, BoundMessageId(r))
        /\ clearWriter(clearWriter(st, sk), sk) = clearWriter(st, sk)
        /\ clearClientToolNames(clearClientToolNames(st, sk), sk)
              = clearClientToolNames(st, sk)
        /\ setClientToolCalled(setClientToolCalled(st, sk), sk)
              = setClientToolCalled(st, sk)
        /\ clearClientToolCalled(clearClientToolCalled(st, sk), sk)
              = clearClientToolCalled(st, sk)

\* the same for pushToolCallId
PushIdempotent(st) ==
    \A sk \in Sessions : \A n \in 1..MaxNestedToolCalls :
        pushToolCallId(pushToolCallId(st, sk, ToolCallIdOf(n)), sk, ToolCallIdOf(n))
           = pushToolCallId(st, sk, ToolCallIdOf(n))

\* C30 as stated: every write operation of the store is idempotent,
\* pushToolCallId included.
C30_AllWritesIdempotent == SetAndClearIdempotent(store) /\ PushIdempotent(store)

\* C30: on every store the program reaches, stashTools, setWriter,
\* clearWriter, markClientToolNames, clearClientToolNames, setClientToolCalled
\* and clearClientToolCalled are idempotent: the second of two calls in a row
\* with the same arguments changes nothing. pushToolCallId is not: the second
\* call appends the id once more.
C30_WritesIdempotentExceptPush ==
    /\ SetAndClearIdempotent(store)
    /\ \A sk \in Sessions : \A n \in 1..MaxNestedToolCalls :
          LET once == pushToolCallId(store, sk, ToolCallIdOf(n))
              twice == pushToolCallId(once, sk, ToolCallIdOf(n))
          IN Len(twice.pendingStacks[sk]) = Len(once.pendingStacks[sk]) + 1

\* the store holds a stash, a writer, client-tool names, the
\* client-tool-called flag and a pending stack for the session
C30_Witness ==
    /\ MapHas(store.toolStore, "s1")
    /\ MapHas(store.writerStore, "s1")
    /\ MapHas(store.clientToolNames, "s1")
    /\ MapHas(store.clientToolCalledFlags, "s1")
    /\ MapHas(store.pendingStacks, "s1")

\* the store holds nothing for the session: it was never initialised, or all
\* it held was cleared or drained
Unbound(st, sk) == \A f \in DOMAIN st : ~MapHas(st[f], sk)

\* C31: for a session the store holds no entry for, every read returns its
\* default (getWriter and getMessageId nothing, popTools the empty list,
\* popToolCallId nothing, isClientTool and wasClientToolCalled false), the
\* pops and the clears leave the store as it is, and a hook or factory
\* invocation for a session that is wholly unbound changes nothing and hands
\* no event to any stream.
C31_UnboundReadsDefault ==
    /\ [](\A sk \in Sessions :
            /\ ~MapHas(store.writerStore, sk)
               => getWriter(store, sk) = <<>> /\ clearWriter(store, sk) = store
            /\ ~MapHas(store.messageIdStore, sk) => getMessageId(store, sk) = <<>>
            /\ ~MapHas(store.toolStore, sk)
               => popToolsResult(store, sk) = <<>> /\ popTools(store, sk) = store
            /\ ~MapHas(store.pendingStacks, sk)
               => /\ popToolCallIdResult(store, sk) = <<>>
                  /\ popToolCallId(store, sk) = store
            /\ ~MapHas(store.clientToolNames, sk)
               => /\ \A toolName \in ToolNames : ~isClientTool(store, sk, toolName)
                  /\ clearClientToolNames(store, sk) = store
            /\ ~MapHas(store.clientToolCalledFlags, sk)
               => /\ ~wasClientToolCalled(store, sk)
                  /\ clearClientToolCalled(store, sk) = store)
    /\ [][(/\ last'.op \in {"before_tool_call", "tool_result_persist",
                            "clawgUiToolFactory"}
           /\ last'.sessionKey \in Sessions
           /\ Unbound(store, last'.sessionKey))
          => /\ last'.emits = <<>>
             /\ UNCHANGED <<runs, store, nextId, calls>>
             /\ last'.op = "tool_result_persist" => last'.popped = <<>>
             /\ last'.op = "clawgUiToolFactory" => last'.return = <<>>]_vars

\* the run on session s1 is over and all the store held for s1 is gone; the
\* factory was then called for s1 and returned no tools
C31_Witness ==
    /\ runs["A"].pc = "done"
    /\ runs["A"].sessionKey = "s1"
    /\ Unbound(store, "s1")
    /\ last.op = "clawgUiToolFactory"
    /\ last.sessionKey = "s1"
    /\ last.return = <<>>

\* C32 as stated: when a run calls the dispatch of the host pipeline, the
\* pending stack of its session holds no tool call id that was pushed during
\* the dispatch of an earlier run, and no stream holds a TOOL_CALL_RESULT or
\* TOOL_CALL_END for a tool call that was started during the dispatch of
\* another run.
C32_StackEmptyAtDispatch ==
    /\ [][(/\ last'.op = "RecordResolves"
           /\ runs[last'.run].pc = "recording"
           /\ runs'[last'.run].pc = "dispatch")
          => LET sk == runs'[last'.run].sessionKey
                 stack == IF MapHas(store'.pendingStacks, sk)
                          THEN store'.pendingStacks[sk] ELSE <<>>
             IN \A k \in 1..Len(stack) : \A c \in 1..Len(calls) :
                   calls[c].toolCallId = stack[k] /\ calls[c].phase = "dispatch"
                   => calls[c].run = last'.run]_vars
    /\ [](\A r \in Runs : \A i \in 1..Len(runs[r].stream) :
            runs[r].stream[i].type \in {"TOOL_CALL_RESULT", "TOOL_CALL_END"}
            => \A c \in 1..Len(calls) :
                  /\ calls[c].toolCallId = runs[r].stream[i].toolCallId
                  /\ calls[c].phase = "dispatch"
                  => calls[c].run = r)

\* C33 as stated: once the handler of a run is over, whether it returned or
\* a step between the binding and dispatch failed, the writer, the stashed
\* client-tool names and the client-tool-called flag it bound for its session
\* are cleared.
C33_CleanupAlwaysRuns ==
    \A r \in Runs :
        runs[r].pc \in Over
        => /\ ~MapHas(store.writerStore, runs[r].sessionKey)
           /\ ~MapHas(store.messageIdStore, runs[r].sessionKey)
           /\ ~MapHas(store.clientToolNames, runs[r].sessionKey)
           /\ ~MapHas(store.clientToolCalledFlags, runs[r].sessionKey)

\* C34 as stated: once the handler of a run is done, the response was ended
\* exactly once, also when the closed flag was set by a failed write or by a
\* client disconnect.
C34_EndedExactlyOnce ==
    \A r \in Runs : HandlerDone(r) => runs[r].ended = 1

\* C34: the response of a run is never ended twice, whatever sendFinalReply,
\* the defensive close and the catch block do in turn; once the handler is
\* done it was ended exactly once unless the stream was cut by a failed write
\* or a client disconnect, and a response that was never ended belongs to a
\* stream that was cut.
C34_EndedOnceUnlessCut ==
    \A r \in Runs :
        /\ runs[r].ended <= 1
        /\ HandlerDone(r) /\ ~StreamCut(r) => runs[r].ended = 1
        /\ runs[r].ended = 1 => runs[r].closed

\* sendFinalReply ended the response behind streamed text, then dispatch
\* returned and the defensive close found the stream closed: ended once
C34_Witness ==
    /\ last.op = "DispatchReturns"
    /\ last.emits = <<>>
    /\ HandlerDone(last.run)
    /\ ~StreamCut(last.run)
    /\ runs[last.run].ended = 1
    /\ HasType(runs[last.run].stream, "TEXT_MESSAGE_CONTENT")
    /\ CountType(runs[last.run].stream, "RUN_FINISHED") = 1

\* C35 as stated: with requests coming one after the other on a session, every
\* tool the factory hands out during the dispatch of a run was stashed by
\* that run's request, so it is one of the client-tool names marked for the
\* run and the before-call hook classifies it as a client tool.
C35_FactoryReturnsOwnStash ==
    [][(/\ last'.op = "clawgUiToolFactory"
        /\ store'.toolStore # store.toolStore
        /\ getWriter(store, last'.sessionKey) # <<>>
        /\ runs[getWriter(store, last'.sessionKey)[1]].pc = "dispatch")
       => \A i \in 1..Len(last'.return) :
             isClientTool(store, last'.sessionKey, last'.return[i].name)]_vars

\* C36 as stated: a tool_result_persist invocation that emits nothing because
\* no writer or no message id is bound for its session leaves the pending
\* stack of the session as it is.
C36_SilentResultKeepsStack ==
    [][(/\ last'.op = "tool_result_persist"
        /\ last'.sessionKey \in Sessions
        /\ last'.emits = <<>>
        /\ \/ ~MapHas(store.writerStore, last'.sessionKey)
           \/ ~MapHas(store.messageIdStore, last'.sessionKey))
       => store'.pendingStacks = store.pendingStacks]_vars

\* C36: a tool_result_persist invocation for a session pops the id pushed
\* last whether or not it can report the result: when no writer or no message
\* id is bound it emits nothing and the pending stack of the session still
\* loses its top, the entry going with the last id; the stack stays as it is
\* only when nothing was pending.
C36_SilentResultPops ==
    [][(/\ last'.op = "tool_result_persist"
        /\ last'.sessionKey \in Sessions
        /\ \/ ~MapHas(store.writerStore, last'.sessionKey)
           \/ ~MapHas(store.messageIdStore, last'.sessionKey))
       => LET sk == last'.sessionKey
              stack == StackOf(store, sk)
          IN /\ last'.emits = <<>>
             /\ UNCHANGED runs
             /\ stack = <<>> => store' = store
             /\ stack # <<>>
                => /\ last'.popped = <<stack[Len(stack)]>>
                   /\ StackOf(store', sk) = SubSeq(stack, 1, Len(stack) - 1)
                   /\ Len(stack) = 1 => ~MapHas(store'.pendingStacks, sk)]_vars

\* the run is over and its writer cleared; the hook then fired for the host
\* tool call left pending, emitted nothing and took the id off the stack
C36_Witness ==
    /\ last.op = "tool_result_persist"
    /\ last.sessionKey = "s1"
    /\ last.writer = <<>>
    /\ last.emits = <<>>
    /\ last.popped # <<>>
    /\ runs["A"].pc = "done"
    /\ ~MapHas(store.pendingStacks, "s1")
    /\ \E c \in 1..Len(calls) :
          /\ <<calls[c].toolCallId>> = last.popped
          /\ ~HasType(runs["A"].stream, "TOOL_CALL_RESULT")

\* C37 as stated: when a run calls the dispatch of the host pipeline, the
\* client-tool-called flag of its session is not left set by anything that
\* happened before the run: if it is set, a before-call hook classified a
\* client tool under this run.
C37_FlagClearAtDispatch ==
    [][(/\ last'.op = "RecordResolves"
        /\ runs[last'.run].pc = "recording"
        /\ runs'[last'.run].pc = "dispatch"
        /\ wasClientToolCalled(store', runs'[last'.run].sessionKey))
       => \E c \in 1..Len(calls) : calls[c].run = last'.run /\ calls[c].client]_vars

\* C38 as stated: when RUN_FINISHED is in the stream of a run, every
\* TOOL_CALL_START ahead of it has a TOOL_CALL_END with the same id between
\* the two.
C38_AllEndedAtFinish ==
    \A r \in Runs :
        \A f \in Positions(runs[r].stream, "RUN_FINISHED") :
            \A i \in Positions(runs[r].stream, "TOOL_CALL_START") :
                i < f
                => \E e \in Positions(runs[r].stream, "TOOL_CALL_END") :
                      /\ i < e /\ e < f
                      /\ runs[r].stream[e].toolCallId = runs[r].stream[i].toolCallId

\* C38: the step that writes RUN_FINISHED, sendFinalReply or the defensive
\* close, writes no TOOL_CALL_END and leaves the pending stacks alone. So
\* ahead of RUN_FINISHED every started client tool call is ended, and a
\* started host tool call is ended only if tool_result_persist popped its id
\* before; one still pending stays without TOOL_CALL_END.
C38_FinishLeavesPendingOpen ==
    /\ [][\A r \in Runs :
            CountType(runs'[r].stream, "RUN_FINISHED")
               > CountType(runs[r].stream, "RUN_FINISHED")
            => /\ CountType(runs'[r].stream, "TOOL_CALL_END")
                    = CountType(runs[r].stream, "TOOL_CALL_END")
               /\ store'.pendingStacks = store.pendingStacks]_vars
    /\ [](\A r \in Runs : \A f \in Positions(runs[r].stream, "RUN_FINISHED") :
            \A c \in 1..Len(calls) :
                calls[c].run = r
                => LET id == calls[c].toolCallId
                       ended == \E e \in 1..f - 1 : <<r, e>> \in EndsOf(id)
                   IN /\ calls[c].client /\ StartsOf(runs[r].stream, id) # {}
                         => ended
                      /\ ~calls[c].client /\ ~calls[c].popped => EndsOf(id) = {}
                      /\ ~calls[c].client /\ ended => calls[c].popped)

\* sendFinalReply finished the run while the host tool call was pending: the
\* stream holds its TOOL_CALL_START and RUN_FINISHED and no TOOL_CALL_END,
\* and the id is still on the stack
C38_Witness ==
    /\ last.op = "sendFinalReply"
    /\ ~StreamCut(last.run)
    /\ CountType(runs[last.run].stream, "RUN_FINISHED") = 1
    /\ \E c \in 1..Len(calls) :
          /\ calls[c].run = last.run
          /\ ~calls[c].client
          /\ StartsOf(runs[last.run].stream, calls[c].toolCallId) # {}
          /\ EndsOf(calls[c].toolCallId) = {}
          /\ StackOf(store, runs[last.run].sessionKey) = <<calls[c].toolCallId>>

\* C39: with two runs overlapping on one session, the bind of a starting run
\* replaces whatever writer and message id the session had; a before-call
\* hook writes to the stream of the run bound last and to no other; and the
\* cleanup of a run removes the writer, the message id, the client-tool names
\* and the client-tool-called flag of the session, also when they were bound
\* by the other run, which is still in dispatch.
C39_SharedSessionOverwrites ==
    [][\A r \in Runs :
          /\ runs[r].pc = "idle" /\ runs'[r].pc # "idle"
             => /\ store'.writerStore[runs'[r].sessionKey] = r
                /\ MapHas(store'.messageIdStore, runs'[r].sessionKey)
          /\ nextId' # nextId /\ last'.writer # <<r>>
             => runs'[r] = runs[r]
          /\ nextId' # nextId /\ last'.writer = <<r>>
             => /\ store.writerStore[last'.sessionKey] = r
                /\ calls'[Len(calls')].run = r
          /\ runs[r].pc = "dispatch" /\ runs'[r].pc = "done"
             => /\ ~MapHas(store'.writerStore, runs[r].sessionKey)
                /\ ~MapHas(store'.messageIdStore, runs[r].sessionKey)
                /\ ~MapHas(store'.clientToolNames, runs[r].sessionKey)
                /\ ~MapHas(store'.clientToolCalledFlags, runs[r].sessionKey)]_vars

\* run B bound the session after run A, a tool call of the pipeline went to the
\* stream of B, then A finished first and its cleanup took the writer B was
\* using: B is in dispatch with no writer bound and its tool call is marked
\* as cleared by the other run
C39_Witness ==
    /\ runs["A"].pc = "done" /\ runs["B"].pc = "dispatch"
    /\ runs["A"].sessionKey = runs["B"].sessionKey
    /\ ~MapHas(store.writerStore, "s1")
    /\ HasType(runs["B"].stream, "TOOL_CALL_START")
    /\ ~HasType(runs["A"].stream, "TOOL_CALL_START")
    /\ Len(calls) = 1 /\ calls[1].run = "B" /\ calls[1].clearedByOther

====
